---- MODULE Spec2Model ----
(***************************************************************************)
(* A model of the media library: the catalog store (zustand store with the *)
(* persist middleware), the thumbnail extraction (generateThumbnail), the  *)
(* player (VideoPlayer and its <video> element) and the properties the     *)
(* specification states about them.                                        *)
(*                                                                         *)
(* JavaScript values are modelled as follows.                              *)
(*  - An object is a record; an optional property that is not set is a     *)
(*    field that is not in the record's domain, so {...a, ...b} is b @@ a. *)
(*  - Identifiers are integers (the code only compares them with ===).     *)
(*  - Timestamps (Date.now()) are integers; positions and durations are    *)
(*    integers in milliseconds.                                            *)
(*  - metadata.duration is the one number the program copies from a value  *)
(*    that can be non-finite (HTMLMediaElement.duration): it is a tagged   *)
(*    value, Num(n) or PosInf, and JsonNull once it went through JSON.     *)
(*  - The volume is in hundredths (0.8 is 80), the rate in hundredths.     *)
(***************************************************************************)
EXTENDS Integers, Sequences, FiniteSets, TLC

VARIABLES
    videos,          \* store: VideoItem[]
    currentVideoId,  \* store: string | null
    settings,        \* store: PlayerSettings
    storage,         \* localStorage["nexus-player-storage"]: <<>> or <<record>>
    last,            \* history: the last store operation and its arguments
    insertOrder,     \* history: ids of the catalog, most recently inserted first
    file,            \* generateThumbnail: the File being decoded
    session,         \* generateThumbnail: the <video> element's decode session
    objectUrl,       \* generateThumbnail: the object URL made for video.src
    promise,         \* generateThumbnail: the returned Promise
    player,          \* VideoPlayer: the mounted component's state, refs and timers
    el,              \* VideoPlayer: the <video> element behind videoRef
    clock,           \* Date.now(), in milliseconds
    uploader,        \* Uploader: the mounted component's state
    imports,         \* Uploader: the running handleLocalUpload and scanFolder calls
    blobs            \* the document's blob URL store (caption URLs)

catalogVars == <<videos, currentVideoId, settings, storage, last, insertOrder>>
thumbVars == <<file, session, objectUrl, promise>>
playerVars == <<player, el, clock>>
docVars == <<uploader, imports, blobs>>
vars == <<videos, currentVideoId, settings, storage, last, insertOrder,
          file, session, objectUrl, promise, player, el, clock,
          uploader, imports, blobs>>

(***************************************************************************)
(* JavaScript helpers                                                      *)
(***************************************************************************)
Null == 0   \* currentVideoId: null (identifiers are positive)

Has(o, f) == f \in DOMAIN o

Spread(base, patch) == patch @@ base

Min(a, b) == IF a < b THEN a ELSE b

\* Array.prototype.slice(a, b) with 0 <= a <= b
Slice(s, a, b) == SubSeq(s, a + 1, Min(b, Len(s)))

\* Array.prototype.map
Map(s, F(_)) == [i \in 1..Len(s) |-> F(s[i])]

\* Array.prototype.filter
Filter(s, T(_)) == SelectSeq(s, T)

Ids(s) == {s[i].id : i \in 1..Len(s)}

\* JavaScript numbers that may be non-finite
Num(n) == [num |-> n]
PosInf == [inf |-> TRUE]
JsonNull == [null |-> TRUE]
IsFinite(x) == Has(x, "num")

(***************************************************************************)
(* Program constants and the bounds of the model                           *)
(***************************************************************************)
MaxVideos == 50           \* slice(0, 50)
DefaultVolume == 80       \* volume: 0.8
DefaultRate == 100        \* playbackRate: 1

\* updateVideoProgress is called with these (position, Date.now()) pairs
ProgressWrites == {<<7000, 1>>, <<0, 2>>}

\* The identifiers the operations are called with: the oldest entry of a full
\* stored catalog and one identifier that no stored catalog holds
OpIds == {1, MaxVideos + 1}

(***************************************************************************)
(* The store: initial state and operations                                 *)
(***************************************************************************)
InitialSettings ==
    [volume |-> DefaultVolume, playbackRate |-> DefaultRate, isMuted |-> FALSE,
     isTheaterMode |-> FALSE, quality |-> "auto"]

\* A VideoItem as the ingestion path builds it: addedAt is Date.now(), and
\* metadata.duration is the <video> element's duration, which is not finite
\* for a file that carries no duration
NewItem(id, t, d) ==
    [id |-> id, source |-> "blob:", addedAt |-> t, metadata |-> [duration |-> d]]

\* The items addVideo is called with
Drafts == {NewItem(1, 2, Num(5000)), NewItem(MaxVideos + 1, 2, PosInf)}

\* The partial settings updateSettings is called with
SettingsPatches == {[isMuted |-> TRUE]}

WithoutId(vs, id) == Filter(vs, LAMBDA v: v.id # id)

\* Faulty variants of addVideo: without the filter, without the slice, with the
\* new item at the end, and with the new item at the old entry's position
AddVideoNoDedup(vs, video) == Slice(<<video>> \o vs, 0, MaxVideos)
AddVideoNoLimit(vs, video) == <<video>> \o WithoutId(vs, video.id)
AddVideoAppend(vs, video) == Slice(WithoutId(vs, video.id) \o <<video>>, 0, MaxVideos)
AddVideoInPlace(vs, video) ==
    IF video.id \in Ids(vs)
    THEN Map(vs, LAMBDA v: IF v.id = video.id THEN video ELSE v)
    ELSE Slice(<<video>> \o vs, 0, MaxVideos)
\* addVideo: [video, ...state.videos.filter(v => v.id !== video.id)].slice(0, 50)
AddVideoResult(vs, video) ==
    Slice(<<video>> \o WithoutId(vs, video.id), 0, MaxVideos)

\* removeVideo: state.videos.filter((v) => v.id !== id)
RemoveVideoResult(vs, id) == Filter(vs, LAMBDA v: v.id # id)

\* Faulty variant of removeVideo: the selection is always cleared
SelectionAfterRemoveClear(cur, id) == Null
\* removeVideo: state.currentVideoId === id ? null : state.currentVideoId
SelectionAfterRemove(cur, id) == IF cur = id THEN Null ELSE cur

\* Faulty variant of updateVideoProgress: every entry is written
UpdateProgressAll(vs, id, progress, now) ==
    Map(vs, LAMBDA v: Spread(v, [progress |-> progress, lastPlayedAt |-> now]))
UpdateProgressResult(vs, id, progress, now) ==
    Map(vs, LAMBDA v: IF v.id = id
                      THEN Spread(v, [progress |-> progress, lastPlayedAt |-> now])
                      ELSE v)

\* !v.favorite: an unset property is falsy
Favorite(v) == Has(v, "favorite") /\ v.favorite

\* Faulty variant of toggleFavorite: the flag is set, never cleared
ToggleFavoriteSetOnly(vs, id) ==
    Map(vs, LAMBDA v: IF v.id = id THEN Spread(v, [favorite |-> TRUE]) ELSE v)
ToggleFavoriteResult(vs, id) ==
    Map(vs, LAMBDA v: IF v.id = id THEN Spread(v, [favorite |-> ~Favorite(v)]) ELSE v)

UpdateSettingsResult(st, newSettings) == Spread(st, newSettings)

(***************************************************************************)
(* The persist middleware: partialize, JSON, the write after every set and *)
(* the rehydration on process start                                        *)
(***************************************************************************)
\* Faulty variant of partialize: the source is kept
BlankSourceKeep(v) == v
\* { ...v, source: '' }: source is a property every item has
BlankSource(v) == [v EXCEPT !.source = ""]

\* partialize: the selection is not part of the stored state
Partialize(vs, cur, st) == [videos |-> Map(vs, BlankSource), settings |-> st]

\* JSON.stringify writes a non-finite number as null
JsonNumber(x) == IF IsFinite(x) THEN x ELSE JsonNull

JsonItem(v) == [v EXCEPT !.metadata.duration = JsonNumber(@)]

\* JSON.parse(JSON.stringify(partial)): unset properties stay unset
JsonRoundTrip(partial) == [partial EXCEPT !.videos = Map(@, JsonItem)]

\* setItem: the record written under the storage key
Persisted(vs, cur, st) ==
    <<[state |-> JsonRoundTrip(Partialize(vs, cur, st)), version |-> 0]>>

\* The state the store is created with
InitialState == [videos |-> <<>>, currentVideoId |-> Null, settings |-> InitialSettings]

\* Rehydration: the stored state is spread over the state the store is created
\* with; without a stored record the created state stays
Hydrate(stored) ==
    IF stored = <<>> THEN InitialState ELSE Spread(InitialState, stored[1].state)

\* A catalog that n imports of ids 1..n leave in storage
StoredItem(id) ==
    [id |-> id, source |-> "", addedAt |-> 1, metadata |-> [duration |-> Num(5000)]]
Filled(n) == [i \in 1..n |-> StoredItem(n + 1 - i)]

\* At process start the storage key is unset (first run) or holds what an
\* earlier run wrote: a full catalog, so that adds overflow
InitialStorage ==
    {<<>>, Persisted(Filled(MaxVideos), Null, InitialSettings)}

(***************************************************************************)
(* History: the order of the most recent insertions                        *)
(***************************************************************************)
IdsWithout(order, id) == SelectSeq(order, LAMBDA x: x # id)
KeepPresent(order, vs) == SelectSeq(order, LAMBDA x: x \in Ids(vs))
IdSeq(vs) == [i \in 1..Len(vs) |-> vs[i].id]

(***************************************************************************)
(* Thumbnail extraction: initial values (the actions follow the store's)   *)
(***************************************************************************)
NoFile == [kind |-> "none"]
NoSession == [state |-> "none"]
PendingPromise == [settled |-> FALSE]

ThumbIdle ==
    /\ file = NoFile
    /\ session = NoSession
    /\ objectUrl = "none"
    /\ promise = PendingPromise

(***************************************************************************)
(* Player: initial values (the component and its actions follow below)     *)
(***************************************************************************)
\* No item is selected: App renders no VideoPlayer and no <video> element
NoPlayer == [mounted |-> FALSE]
NoElement == [exists |-> FALSE]

PlayerIdle ==
    /\ player = NoPlayer
    /\ el = NoElement
    /\ clock = 0

(***************************************************************************)
(* The rest of the document: the Uploader component (rendered while no     *)
(* item is selected), the imports it started and the blob URL store        *)
(***************************************************************************)
NoUploader == [mounted |-> FALSE]
NewUploader == [mounted |-> TRUE, isLoading |-> FALSE]
NoBlobs == [next |-> 1, live |-> {}]

DocIdle ==
    /\ uploader = NewUploader
    /\ imports = <<>>
    /\ blobs = NoBlobs

(***************************************************************************)
(* Store actions                                                           *)
(***************************************************************************)
InitCatalog ==
    /\ storage \in InitialStorage
    /\ videos = Hydrate(storage).videos
    /\ currentVideoId = Hydrate(storage).currentVideoId
    /\ settings = Hydrate(storage).settings
    /\ last = [op |-> "create"]
    /\ insertOrder = IdSeq(videos)

\* Faulty variant of addVideo: a selection whose entry is gone is cleared
AddVideoValidatesSelection(video) ==
    /\ videos' = AddVideoResult(videos, video)
    /\ currentVideoId' = IF currentVideoId \in Ids(videos') THEN currentVideoId ELSE Null
    /\ UNCHANGED settings
    /\ storage' = Persisted(videos', currentVideoId', settings')
    /\ last' = [op |-> "addVideo", video |-> video,
                present |-> video.id \in Ids(videos), full |-> Len(videos) = MaxVideos]
    /\ insertOrder' = KeepPresent(<<video.id>> \o IdsWithout(insertOrder, video.id), videos')
    /\ UNCHANGED <<thumbVars, playerVars, docVars>>

AddVideo(video) ==
    /\ videos' = AddVideoResult(videos, video)
    /\ UNCHANGED <<currentVideoId, settings>>
    /\ storage' = Persisted(videos', currentVideoId', settings')
    /\ last' = [op |-> "addVideo", video |-> video,
                present |-> video.id \in Ids(videos), full |-> Len(videos) = MaxVideos]
    /\ insertOrder' = KeepPresent(<<video.id>> \o IdsWithout(insertOrder, video.id), videos')
    /\ UNCHANGED <<thumbVars, playerVars, docVars>>

RemoveVideo(id) ==
    /\ videos' = RemoveVideoResult(videos, id)
    /\ currentVideoId' = SelectionAfterRemove(currentVideoId, id)
    /\ UNCHANGED settings
    /\ storage' = Persisted(videos', currentVideoId', settings')
    /\ last' = [op |-> "removeVideo", id |-> id,
                present |-> id \in Ids(videos), selected |-> currentVideoId = id]
    /\ insertOrder' = IdsWithout(insertOrder, id)
    /\ UNCHANGED <<thumbVars, playerVars, docVars>>

SetCurrentVideo(id) ==
    /\ currentVideoId' = id
    /\ UNCHANGED <<videos, settings>>
    /\ storage' = Persisted(videos', currentVideoId', settings')
    /\ last' = [op |-> "setCurrentVideo", id |-> id]
    /\ UNCHANGED insertOrder
    /\ UNCHANGED <<thumbVars, playerVars, docVars>>

UpdateVideoProgress(id, progress, now) ==
    /\ videos' = UpdateProgressResult(videos, id, progress, now)
    /\ UNCHANGED <<currentVideoId, settings>>
    /\ storage' = Persisted(videos', currentVideoId', settings')
    /\ last' = [op |-> "updateVideoProgress", id |-> id, progress |-> progress,
                now |-> now, present |-> id \in Ids(videos)]
    /\ UNCHANGED insertOrder
    /\ UNCHANGED <<thumbVars, playerVars, docVars>>

ToggleFavorite(id) ==
    /\ videos' = ToggleFavoriteResult(videos, id)
    /\ UNCHANGED <<currentVideoId, settings>>
    /\ storage' = Persisted(videos', currentVideoId', settings')
    /\ last' = [op |-> "toggleFavorite", id |-> id, present |-> id \in Ids(videos)]
    /\ UNCHANGED insertOrder
    /\ UNCHANGED <<thumbVars, playerVars, docVars>>

UpdateSettings(newSettings) ==
    /\ settings' = UpdateSettingsResult(settings, newSettings)
    /\ UNCHANGED <<videos, currentVideoId>>
    /\ storage' = Persisted(videos', currentVideoId', settings')
    /\ last' = [op |-> "updateSettings", newSettings |-> newSettings]
    /\ UNCHANGED insertOrder
    /\ UNCHANGED <<thumbVars, playerVars, docVars>>

ClearHistory ==
    /\ videos' = <<>>
    /\ currentVideoId' = Null
    /\ UNCHANGED settings
    /\ storage' = Persisted(videos', currentVideoId', settings')
    /\ last' = [op |-> "clearHistory"]
    /\ insertOrder' = <<>>
    /\ UNCHANGED <<thumbVars, playerVars, docVars>>

\* The process ends and starts again: the store is created anew and rehydrated
Restart ==
    /\ videos' = Hydrate(storage).videos
    /\ currentVideoId' = Hydrate(storage).currentVideoId
    /\ settings' = Hydrate(storage).settings
    /\ UNCHANGED storage
    /\ last' = [op |-> "restart"]
    /\ UNCHANGED insertOrder
    /\ UNCHANGED <<thumbVars, playerVars, docVars>>

NextCatalog ==
    \/ \E video \in Drafts : AddVideo(video)
    \/ \E id \in OpIds : RemoveVideo(id)
    \/ \E id \in OpIds \cup {Null} : SetCurrentVideo(id)
    \/ \E id \in OpIds, w \in ProgressWrites : UpdateVideoProgress(id, w[1], w[2])
    \/ \E id \in OpIds : ToggleFavorite(id)
    \/ \E patch \in SettingsPatches : UpdateSettings(patch)
    \/ ClearHistory
    \/ Restart

InitCatalogSpec == InitCatalog /\ ThumbIdle /\ PlayerIdle /\ DocIdle

SpecCatalog == InitCatalogSpec /\ [][NextCatalog]_vars

(***************************************************************************)
(* Properties of the catalog store                                         *)
(***************************************************************************)
UniqueIds(vs) == \A i \in 1..Len(vs) : \A j \in (i + 1)..Len(vs) : vs[i].id # vs[j].id

\* C1: no two catalog entries share an identifier, and an add whose id
\* matches an existing entry never increases the number of entries.
C1_UniqueIdentifiers ==
    /\ []UniqueIds(videos)
    /\ [][(last'.op = "addVideo" /\ last'.present) => Len(videos') <= Len(videos)]_vars

\* An add of an id the catalog held has acted, and the catalog has other entries
C1_Witness ==
    /\ last.op = "addVideo"
    /\ last.present
    /\ Len(videos) > 1
    /\ videos[1] = last.video

\* C2: in every reachable state the catalog holds at most 50 entries.
C2_AtMostFifty == Len(videos) <= MaxVideos

\* An add of a new id into a full catalog has acted
C2_Witness ==
    /\ last.op = "addVideo"
    /\ last.full
    /\ ~last.present
    /\ Len(videos) = MaxVideos

\* The number of entries of vs[1..i] whose id is not id
Rank(vs, id, i) == Cardinality({j \in 1..i : vs[j].id # id})

\* C3: add(item) yields the new item at the head, then the previous entries
\* of another id in their previous order, cut to 50 entries; an add of a new
\* id into a full catalog drops exactly the entry inserted longest ago.
C3_AddExact ==
    [][last'.op = "addVideo" =>
         LET item == last'.video
             kept == Rank(videos, item.id, Len(videos))
         IN  /\ videos'[1] = item
             /\ Len(videos') = Min(MaxVideos, 1 + kept)
             /\ \A i \in 1..Len(videos) :
                   (videos[i].id # item.id /\ Rank(videos, item.id, i) < MaxVideos)
                       => videos'[Rank(videos, item.id, i) + 1] = videos[i]
             /\ (last'.full /\ ~last'.present) =>
                   /\ Ids(videos') =
                        (Ids(videos) \cup {item.id}) \ {insertOrder[Len(insertOrder)]}
                   /\ \A i \in 1..(Len(videos) - 1) : videos'[i + 1] = videos[i]
                   /\ videos[Len(videos)].id = insertOrder[Len(insertOrder)]]_vars

\* An add of a new id into a full catalog has acted and the oldest entry left
C3_Witness ==
    /\ last.op = "addVideo"
    /\ last.full
    /\ ~last.present
    /\ videos[1] = last.video
    /\ Len(videos) = MaxVideos
    /\ videos[2].id = MaxVideos

\* C4 as stated: an add of an id the catalog holds puts the new item at the
\* position of the old entry and leaves every other entry at its position.
C4_ReplacedInPlace ==
    [][(last'.op = "addVideo" /\ last'.present) =>
         /\ Len(videos') = Len(videos)
         /\ \A i \in 1..Len(videos) :
               videos'[i] = IF videos[i].id = last'.video.id THEN last'.video
                            ELSE videos[i]]_vars

\* C4 as amended: an add of an id the catalog holds puts the new item at the
\* head; the old entry is gone, the number of entries is the same, the entries
\* that were ahead of the old entry move back by one position and the entries
\* behind it keep their position.
C4_ReplacedAtHead ==
    [][(last'.op = "addVideo" /\ last'.present) =>
         \E k \in 1..Len(videos) :
            /\ videos[k].id = last'.video.id
            /\ Len(videos') = Len(videos)
            /\ videos'[1] = last'.video
            /\ \A i \in 1..(k - 1) : videos'[i + 1] = videos[i]
            /\ \A i \in (k + 1)..Len(videos) : videos'[i] = videos[i]
            /\ \A i \in 2..Len(videos') : videos'[i].id # last'.video.id]_vars

\* The oldest entry of a full catalog was added again: it is at the head, and
\* the entry that was at the head is second
C4_Witness ==
    /\ last.op = "addVideo"
    /\ last.present
    /\ last.video.id = 1
    /\ Len(videos) = MaxVideos
    /\ videos[1] = last.video
    /\ videos[2].id = MaxVideos
    /\ videos[MaxVideos].id = 2

\* C5: remove(id) deletes the entry with that id and nothing else; the
\* selection becomes none when it was id and is unchanged otherwise.
C5_RemoveFrame ==
    [][last'.op = "removeVideo" =>
         LET id == last'.id IN
         /\ IF id \in Ids(videos)
            THEN \E k \in 1..Len(videos) :
                    /\ videos[k].id = id
                    /\ Len(videos') = Len(videos) - 1
                    /\ \A i \in 1..(k - 1) : videos'[i] = videos[i]
                    /\ \A i \in k..Len(videos') : videos'[i] = videos[i + 1]
            ELSE videos' = videos
         /\ currentVideoId = id => currentVideoId' = Null
         /\ currentVideoId # id => currentVideoId' = currentVideoId
         /\ settings' = settings]_vars

\* The selected entry was removed while the catalog held other entries
C5_Witness ==
    /\ last.op = "removeVideo"
    /\ last.present
    /\ last.selected
    /\ currentVideoId = Null
    /\ Len(videos) > 0
    /\ last.id \notin Ids(videos)

\* An object that differs from v at most in the properties fs
SameExcept(v, w, fs) ==
    /\ DOMAIN w \ fs = DOMAIN v \ fs
    /\ \A f \in DOMAIN v \ fs : w[f] = v[f]

\* C6: updateProgress(id, p) changes only the position and the last-played
\* timestamp of the entry whose id matches; the other entries, the order, the
\* number of entries, the selection and the preferences are unchanged, and
\* with an absent id the catalog state is unchanged.
C6_UpdateProgressFrame ==
    [][last'.op = "updateVideoProgress" =>
         /\ Len(videos') = Len(videos)
         /\ \A i \in 1..Len(videos) :
               IF videos[i].id = last'.id
               THEN /\ SameExcept(videos[i], videos'[i], {"progress", "lastPlayedAt"})
                    /\ videos'[i].progress = last'.progress
                    /\ videos'[i].lastPlayedAt = last'.now
               ELSE videos'[i] = videos[i]
         /\ currentVideoId' = currentVideoId
         /\ settings' = settings
         /\ last'.id \notin Ids(videos) =>
               (videos' = videos /\ storage' = Persisted(videos, currentVideoId, settings))]_vars

\* A position was written to one entry while another entry has none
C6_Witness ==
    /\ last.op = "updateVideoProgress"
    /\ last.present
    /\ \E i, j \in 1..Len(videos) :
          /\ videos[i].id = last.id
          /\ videos[i].progress = last.progress
          /\ Has(videos[i], "favorite")
          /\ videos[j].id # last.id
          /\ ~Has(videos[j], "progress")

\* C7: toggleFavorite(id) inverts the favorite flag of the entry whose id
\* matches and changes nothing else; with an absent id nothing changes.
C7_ToggleFavoriteFrame ==
    [][last'.op = "toggleFavorite" =>
         /\ Len(videos') = Len(videos)
         /\ \A i \in 1..Len(videos) :
               IF videos[i].id = last'.id
               THEN /\ SameExcept(videos[i], videos'[i], {"favorite"})
                    /\ videos'[i].favorite = ~Favorite(videos[i])
               ELSE videos'[i] = videos[i]
         /\ currentVideoId' = currentVideoId
         /\ settings' = settings
         /\ last'.id \notin Ids(videos) => videos' = videos]_vars

\* A favorite was toggled back to false on an entry that has a position
C7_Witness ==
    /\ last.op = "toggleFavorite"
    /\ last.present
    /\ \E i \in 1..Len(videos) :
          /\ videos[i].id = last.id
          /\ Has(videos[i], "favorite")
          /\ ~videos[i].favorite
          /\ Has(videos[i], "progress")

\* C8: every item of every durable snapshot has an empty source locator.
C8_SnapshotSourcesEmpty ==
    storage # <<>> =>
        \A i \in 1..Len(storage[1].state.videos) : storage[1].state.videos[i].source = ""

\* A snapshot was written for a catalog that holds an item with a source
C8_Witness ==
    /\ storage # <<>>
    /\ last.op \notin {"create", "restart"}
    /\ Len(storage[1].state.videos) = Len(videos)
    /\ \E i \in 1..Len(videos) :
          /\ videos[i].source # ""
          /\ storage[1].state.videos[i].id = videos[i].id

\* C9: after a restart the catalog has the items it had before, each the same
\* but for an empty source locator, in the same order; the preferences are
\* the same and the selection is none.
C9_RestartKeepsItems ==
    [][last'.op = "restart" =>
         /\ Len(videos') = Len(videos)
         /\ \A i \in 1..Len(videos) :
               /\ SameExcept(videos[i], videos'[i], {"source"})
               /\ videos'[i].source = ""
         /\ settings' = settings
         /\ currentVideoId' = Null]_vars

\* C31: addVideo leaves the selection and the settings as they are, also when
\* the selected entry is the one replaced or the one dropped from a full
\* catalog; and of the store's operations only setCurrentVideo, clearHistory
\* and removeVideo of the selected id change the selection, whether or not the
\* catalog holds the selected id.  (A restart creates the store anew: C9.)
C31_AddKeepsSelection ==
    /\ [][last'.op = "addVideo" =>
            (currentVideoId' = currentVideoId /\ settings' = settings)]_vars
    /\ [][(\/ last'.op \in {"addVideo", "updateVideoProgress",
                            "toggleFavorite", "updateSettings"}
           \/ last'.op = "removeVideo" /\ last'.id # currentVideoId)
             => currentVideoId' = currentVideoId]_vars

\* The selected entry was the oldest of a full catalog and an add of a new id
\* dropped it: the selection still names it
C31_Witness ==
    /\ last.op = "addVideo"
    /\ last.full
    /\ ~last.present
    /\ currentVideoId = 1
    /\ currentVideoId \notin Ids(videos)
    /\ Len(videos) = MaxVideos

(***************************************************************************)
(* Thumbnail extraction: generateThumbnail(file)                           *)
(*                                                                         *)
(* file is what the decode session will find in the File: whether its      *)
(* metadata can be decoded, its duration and its intrinsic dimensions      *)
(* (0 x 0 for audio).  session is the <video> element: whether src is set, *)
(* whether metadata is available, whether a seek is pending, whether a     *)
(* seek has completed, whether an error was reported, the position sought  *)
(* and the events delivered so far.  One extraction is modelled.           *)
(***************************************************************************)
Files ==
    {[decodable |-> FALSE, duration |-> Num(0), videoWidth |-> 0, videoHeight |-> 0]}
    \cup
    [decodable : {TRUE}, duration : {Num(0), Num(4000), Num(20000), PosInf},
     videoWidth : {0, 1280}, videoHeight : {0, 720}]

OpenSession ==
    [src |-> TRUE, metadata |-> FALSE, seeking |-> FALSE, seeked |-> FALSE,
     error |-> FALSE, currentTime |-> 0, events |-> <<>>]

\* Math.min(1, video.duration * 0.1), in milliseconds
SeekTarget(duration) ==
    IF IsFinite(duration) THEN Min(1000, duration.num \div 10) ELSE 1000

\* canvas.toDataURL('image/jpeg', 0.8): a canvas without area (videoHeight or
\* videoWidth 0 makes canvas.height 0) encodes as "data:,"
CapturedFrame(f) ==
    IF f.videoWidth > 0 /\ f.videoHeight > 0 THEN "data:image/jpeg" ELSE "data:,"

\* onseeked: the value resolve is called with
SeekedResult(f) ==
    [thumbnail |-> CapturedFrame(f), duration |-> f.duration,
     width |-> f.videoWidth, height |-> f.videoHeight]

\* Faulty variant of onerror: the element's duration is passed on
ErrorResultWithDuration ==
    [thumbnail |-> "", duration |-> file.duration, width |-> 0, height |-> 0]
\* onerror: the value resolve is called with
ErrorResult == [thumbnail |-> "", duration |-> Num(0), width |-> 0, height |-> 0]

\* resolve(value) of a Promise: only the first call settles it
Resolve(p, value) == IF p.settled THEN p ELSE [settled |-> TRUE, value |-> value]

Delivered(name) == [session EXCEPT !.events = Append(@, name)]

GenerateThumbnail(f) ==
    /\ session = NoSession
    /\ file' = f
    /\ session' = OpenSession
    /\ objectUrl' = "live"
    /\ promise' = PendingPromise
    /\ UNCHANGED <<catalogVars, playerVars, docVars>>

\* The session delivers loadedmetadata: a seek is requested
OnLoadedMetadata ==
    /\ session # NoSession
    /\ file.decodable
    /\ ~session.metadata
    /\ ~session.error
    /\ session' = [Delivered("loadedmetadata") EXCEPT
                     !.metadata = TRUE, !.seeking = TRUE,
                     !.currentTime = SeekTarget(file.duration)]
    /\ UNCHANGED <<file, objectUrl, promise>>
    /\ UNCHANGED <<catalogVars, playerVars, docVars>>

\* Faulty variant of onseeked: the promise is resolved, the object URL is kept
OnSeekedNoRevoke ==
    /\ session # NoSession
    /\ session.seeking
    /\ session' = [Delivered("seeked") EXCEPT !.seeking = FALSE, !.seeked = TRUE]
    /\ promise' = Resolve(promise, SeekedResult(file))
    /\ UNCHANGED <<file, objectUrl>>
    /\ UNCHANGED <<catalogVars, playerVars, docVars>>

\* The session delivers seeked: the frame is captured, the promise resolved
\* and the object URL revoked
OnSeeked ==
    /\ session # NoSession
    /\ session.seeking
    /\ session' = [Delivered("seeked") EXCEPT !.seeking = FALSE, !.seeked = TRUE]
    /\ promise' = Resolve(promise, SeekedResult(file))
    /\ objectUrl' = "revoked"
    /\ UNCHANGED file
    /\ UNCHANGED <<catalogVars, playerVars, docVars>>

\* Faulty variant of onerror: the object URL is revoked, resolve is not called
OnErrorNoResolve ==
    /\ session # NoSession
    /\ ~session.error
    /\ session' = [Delivered("error") EXCEPT !.error = TRUE]
    /\ objectUrl' = "revoked"
    /\ UNCHANGED <<file, promise>>
    /\ UNCHANGED <<catalogVars, playerVars, docVars>>

\* The session delivers error (while loading, while seeking or after the seek):
\* the object URL is revoked and the promise resolved with the degraded result
OnError ==
    /\ session # NoSession
    /\ ~session.error
    /\ session' = [Delivered("error") EXCEPT !.error = TRUE]
    /\ objectUrl' = "revoked"
    /\ promise' = Resolve(promise, ErrorResult)
    /\ UNCHANGED file
    /\ UNCHANGED <<catalogVars, playerVars, docVars>>

NextThumbnail ==
    \/ \E f \in Files : GenerateThumbnail(f)
    \/ OnLoadedMetadata
    \/ OnSeeked
    \/ OnError

InitThumbnailSpec ==
    InitCatalog /\ storage = <<>> /\ ThumbIdle /\ PlayerIdle /\ DocIdle

SpecThumbnail == InitThumbnailSpec /\ [][NextThumbnail]_vars

\* What the decode session owes the extraction (media element load and seek
\* algorithms): a source that can be decoded leads to loadedmetadata, a seek
\* that was requested leads to seeked, and a source that cannot be decoded
\* leads to error. An error on a source that can be decoded may come or not.
ErrorOfUndecodable == OnError /\ ~file.decodable

SessionFairness ==
    /\ WF_vars(OnLoadedMetadata)
    /\ WF_vars(OnSeeked)
    /\ WF_vars(ErrorOfUndecodable)

SpecThumbnailFair ==
    InitThumbnailSpec /\ [][NextThumbnail]_vars /\ SessionFairness

(***************************************************************************)
(* Properties of the thumbnail extraction                                  *)
(***************************************************************************)
\* The events delivered before the first error hold no seeked
ErrorBeforeSeeked(events) ==
    \E k \in 1..Len(events) :
        /\ events[k] = "error"
        /\ \A j \in 1..(k - 1) : events[j] # "seeked"

\* C10: once the session has reported an error before the seek completed
\* (before or after metadata), the promise is resolved with an empty preview
\* and zero duration, width and height, also after later events; and a
\* resolved promise never changes.
C10_ErrorResolvesDegraded ==
    /\ [](session # NoSession /\ ErrorBeforeSeeked(session.events) =>
            /\ promise.settled
            /\ promise.value =
                 [thumbnail |-> "", duration |-> Num(0), width |-> 0, height |-> 0])
    /\ [][promise.settled => promise' = promise]_vars

\* The error came after the metadata and before the seek completed, and the
\* seeked event was delivered after the promise was resolved
C10_Witness ==
    /\ session # NoSession
    /\ session.events = <<"loadedmetadata", "error", "seeked">>
    /\ file.duration = Num(20000)
    /\ promise.settled
    /\ promise.value.thumbnail = ""

\* C11: every extraction that was started is eventually resolved, whatever
\* events the session delivers (metadata then seeked, an error at any stage,
\* or an error for a source that cannot be decoded).
C11_ExtractResolves == (session # NoSession) ~> promise.settled

\* An extraction resolved by the seek of a source that was decoded, no error
C11_Witness ==
    /\ session # NoSession
    /\ session.events = <<"loadedmetadata", "seeked">>
    /\ promise.settled
    /\ promise.value.thumbnail = "data:image/jpeg"

\* C30: whenever the extraction is resolved, by the captured frame or by an
\* error, the object URL made for the decode session has been revoked by the
\* end of the resolving step, and it stays revoked.
C30_HandleReleased ==
    /\ [](promise.settled => objectUrl = "revoked")
    /\ [][~promise.settled /\ promise'.settled => objectUrl' = "revoked"]_vars
    /\ [][objectUrl = "revoked" => objectUrl' = "revoked"]_vars

\* Resolved by the captured frame of a source without error: the URL is revoked
C30_Witness ==
    /\ session # NoSession
    /\ ~session.error
    /\ session.seeked
    /\ promise.settled
    /\ promise.value = SeekedResult(file)
    /\ objectUrl = "revoked"

(***************************************************************************)
(* The <video> element of the player (HTMLMediaElement)                    *)
(*                                                                         *)
(* The element queues its events as tasks; a task holds the sequence of    *)
(* the event types it fires. Listeners are looked up when the task runs.   *)
(* Two fields are history only: boundId of the element is the id of the    *)
(* video prop of the last bind effect run, and origin of a task is the     *)
(* boundId at the time the task was queued.                                *)
(***************************************************************************)
EventTypes == {"timeupdate", "loadedmetadata", "error", "play", "pause"}

NoListeners == [t \in EventTypes |-> <<>>]

NaN == [nan |-> TRUE]

\* What the sources of this session decode to
Media == [duration |-> Num(20000), step |-> 10000]

\* The positions a seek may leave in the element before the metadata is known
\* (the default playback start position)
PreloadPositions == {0, 10000}

Max(a, b) == IF a > b THEN a ELSE b

\* The element React creates for <video ref={videoRef}>
NewElement ==
    [exists |-> TRUE, src |-> "", paused |-> TRUE, currentTime |-> 0,
     duration |-> NaN, metadata |-> FALSE, error |-> "none",
     volume |-> 100, playbackRate |-> 100, muted |-> FALSE,
     listeners |-> NoListeners, queue |-> <<>>, boundId |-> Null]

\* queue a media element task that fires the events of types
QueueTask(e, types) ==
    [e EXCEPT !.queue = Append(@, [types |-> types, origin |-> e.boundId])]

\* Whether the load algorithm fires timeupdate: never on an element that had
\* no source, always when it moves the position back to 0, and otherwise as the
\* user agent decides
LoadTimeUpdates(e) ==
    IF e.src = "" THEN {FALSE} ELSE IF e.currentTime # 0 THEN {TRUE} ELSE BOOLEAN

\* videoEl.src = src: the media element load algorithm. Pending tasks are
\* removed, the element is paused without a pause event, the position goes
\* back to 0 and the playback rate to the default rate.
Load(e, src, timeupdate) ==
    LET reset == [e EXCEPT !.src = src, !.paused = TRUE, !.currentTime = 0,
                           !.duration = NaN, !.metadata = FALSE,
                           !.error = "none", !.playbackRate = 100,
                           !.queue = <<>>]
    IN  IF timeupdate THEN QueueTask(reset, <<"timeupdate">>) ELSE reset

Ended(e) == e.metadata /\ e.currentTime = e.duration.num

\* videoEl.play(): rejected when the source is not supported; otherwise a
\* paused element starts (from the start when it had ended) and fires play
Play(e) ==
    IF e.error = "unsupported" \/ ~e.paused THEN e
    ELSE IF Ended(e)
         THEN QueueTask(QueueTask([e EXCEPT !.paused = FALSE, !.currentTime = 0],
                                  <<"play">>), <<"timeupdate">>)
         ELSE QueueTask([e EXCEPT !.paused = FALSE], <<"play">>)

\* videoEl.pause(): an element that is not paused fires timeupdate and pause
Pause(e) ==
    IF e.paused THEN e
    ELSE QueueTask([e EXCEPT !.paused = TRUE], <<"timeupdate", "pause">>)

\* videoEl.currentTime = t: before the metadata is known the value is kept as
\* the start position; after it the element seeks (within the media) and
\* fires timeupdate
SetCurrentTime(e, t) ==
    IF e.metadata
    THEN QueueTask([e EXCEPT !.currentTime = Max(0, Min(t, e.duration.num))],
                   <<"timeupdate">>)
    ELSE [e EXCEPT !.currentTime = t]

(***************************************************************************)
(* The VideoPlayer component                                               *)
(*                                                                         *)
(* A listener is the closure an effect run created: the video prop of that *)
(* render and the number of the run (its identity for removeEventListener).*)
(* Operators that change both the component and the element work on a      *)
(* record [p, e]; those that also write the catalog on [p, e, vs].         *)
(* The buffered bar (setBuffered) is display only and left out.            *)
(* Two fields of the component are history only: binds counts the bind     *)
(* effect runs that loaded a source, tapCalls holds the requests the       *)
(* pending tap made of the element.                                        *)
(***************************************************************************)
NoTap == [set |-> FALSE]
NoTimer == [set |-> FALSE]

\* useState/useRef initial values of a mounted component
NewPlayer ==
    [mounted |-> TRUE, isPlaying |-> FALSE, currentTime |-> 0, duration |-> Num(0),
     showControls |-> TRUE, skipFeedback |-> "none", loadError |-> FALSE,
     lastTap |-> NoTap, controlsTimer |-> NoTimer, cueTimers |-> {},
     deps |-> <<>>, settingsDeps |-> <<>>, cleanup |-> <<>>, binds |-> 0,
     tapCalls |-> <<>>, subtitleUrl |-> Null]

\* The catalog entry App passes as the video prop
CurrentVideo(vs, cur) == SelectSeq(vs, LAMBDA v: v.id = cur)

Truthy(v, f) == Has(v, f) /\ v[f] # 0

RemoveListener(ls, h) == SelectSeq(ls, LAMBDA x: x # h)

\* The cleanup the bind effect returned: it removes the three named handlers
Cleanup(p, e) ==
    IF p.cleanup = <<>> THEN e
    ELSE [e EXCEPT !.listeners =
            [t \in EventTypes |->
                IF t \in {"timeupdate", "loadedmetadata", "error"}
                THEN RemoveListener(@[t], p.cleanup[1]) ELSE @[t]]]

\* Faulty variant: the volume is not set on the element
ApplySettingsNoVolume(e, st) ==
    [e EXCEPT !.playbackRate = st.playbackRate, !.muted = st.isMuted]
\* The three assignments both effects make
ApplySettings(e, st) ==
    [e EXCEPT !.playbackRate = st.playbackRate, !.volume = st.volume,
              !.muted = st.isMuted]

\* The bind effect (deps [video.id, video.source]): nothing for an empty
\* source; otherwise the error flag is cleared, the source and the settings
\* are set on the element and five listeners are added
BindEffect(p, e, video, st, timeupdate) ==
    IF video.source = ""
    THEN [p |-> [p EXCEPT !.cleanup = <<>>], e |-> [e EXCEPT !.boundId = video.id]]
    ELSE LET h == [video |-> video, run |-> p.binds + 1]
             loaded == ApplySettings(Load([e EXCEPT !.boundId = video.id],
                                          video.source, timeupdate), st)
         IN  [p |-> [p EXCEPT !.loadError = FALSE, !.cleanup = <<h>>,
                              !.binds = @ + 1],
              e |-> [loaded EXCEPT !.listeners =
                        [t \in EventTypes |-> Append(@[t], h)]]]

\* Faulty variant of the bind effect's deps: the video object itself
BindDepsWholeVideo(video) == <<video>>
\* The deps of the bind effect: [video.id, video.source]
BindDeps(video) == <<video.id, video.source>>
SettingsDeps(st) == <<st.playbackRate, st.volume, st.isMuted>>

\* The settings effect (deps [playbackRate, volume, isMuted])
SettingsEffect(S, st) ==
    IF S.p.settingsDeps = <<SettingsDeps(st)>> THEN S
    ELSE [p |-> [S.p EXCEPT !.settingsDeps = <<SettingsDeps(st)>>],
          e |-> ApplySettings(S.e, st)]

\* A render of a mounted component with the video prop and the settings of
\* the store: the effects whose deps changed run, cleanup first
Render(p, e, video, st, timeupdate) ==
    LET bound ==
            IF p.deps = <<BindDeps(video)>> THEN [p |-> p, e |-> e]
            ELSE BindEffect([p EXCEPT !.deps = <<BindDeps(video)>>],
                            Cleanup(p, e), video, st, timeupdate)
    IN  SettingsEffect(bound, st)

\* Faulty variant of handleTimeUpdate: the position is written only while the
\* element is paused
HandleTimeUpdateOnPause(S, h, t) ==
    [S EXCEPT !.p.currentTime = S.e.currentTime,
              !.vs = IF S.e.paused
                     THEN UpdateProgressResult(S.vs, h.video.id, S.e.currentTime, t)
                     ELSE S.vs]
\* handleTimeUpdate of the listener h, at time t: the position is shown and
\* written to the catalog entry of the video the listener was created for
HandleTimeUpdate(S, h, t) ==
    [S EXCEPT !.p.currentTime = S.e.currentTime,
              !.vs = UpdateProgressResult(S.vs, h.video.id, S.e.currentTime, t)]

\* handleLoadedMetadata: the duration is shown and a saved position resumed
HandleLoadedMetadata(S, h) ==
    LET shown == [S EXCEPT !.p.duration = S.e.duration]
    IN  IF Truthy(h.video, "progress")
        THEN [shown EXCEPT !.e = SetCurrentTime(shown.e, h.video.progress)]
        ELSE shown

HandleError(S, h) == [S EXCEPT !.p.loadError = TRUE]

\* Faulty variant of the play listener: the error flag is cleared as well
HandlePlayClearsError(S, h) == [S EXCEPT !.p.isPlaying = TRUE, !.p.loadError = FALSE]
HandlePlay(S, h) == [S EXCEPT !.p.isPlaying = TRUE]
HandlePause(S, h) == [S EXCEPT !.p.isPlaying = FALSE]

Handle(S, type, h, t) ==
    CASE type = "timeupdate" -> HandleTimeUpdate(S, h, t)
      [] type = "loadedmetadata" -> HandleLoadedMetadata(S, h)
      [] type = "error" -> HandleError(S, h)
      [] type = "play" -> HandlePlay(S, h)
      [] type = "pause" -> HandlePause(S, h)

\* dispatchEvent: the listeners registered for the type run in the order
\* they were added
RECURSIVE DispatchTo(_, _, _, _)
DispatchTo(S, type, hs, t) ==
    IF hs = <<>> THEN S
    ELSE DispatchTo(Handle(S, type, Head(hs), t), type, Tail(hs), t)

\* A task runs: its events are dispatched one after the other
RECURSIVE RunTask(_, _, _)
RunTask(S, types, t) ==
    IF types = <<>> THEN S
    ELSE RunTask(DispatchTo(S, Head(types), S.e.listeners[Head(types)], t),
                 Tail(types), t)

(***************************************************************************)
(* The catalog of a session with a player                                  *)
(***************************************************************************)
PlayerItem(id, source) == [NewItem(id, 1, Media.duration) EXCEPT !.source = source]

\* Item 3 was restored from storage (no source), items 1 and 2 were imported
\* in this session, item 2 was played up to 10 s
PlayerCatalog ==
    <<Spread(PlayerItem(2, "blob:b"), [progress |-> 10000, lastPlayedAt |-> 1]),
      PlayerItem(1, "blob:a"),
      StoredItem(3)>>

PlayerIds == {1, 2, 3}

InitPlayerSpec ==
    /\ videos = PlayerCatalog
    /\ currentVideoId = Null
    /\ settings = InitialSettings
    /\ storage = Persisted(videos, currentVideoId, settings)
    /\ last = [op |-> "create"]
    /\ insertOrder = IdSeq(videos)
    /\ ThumbIdle
    /\ PlayerIdle
    /\ DocIdle

(***************************************************************************)
(* Player actions: selection, the element's events and their delivery      *)
(***************************************************************************)
\* Bounds of the exploration: bind effect runs of one mounted component, and
\* tasks waiting in the element's queue
MaxBinds == 2
MaxQueue == 1

\* App renders after a store change: no VideoPlayer without a current video,
\* a new component and element when there was none, otherwise a re-render
Rerender(p, e, vs, cur, st, timeupdate) ==
    LET item == CurrentVideo(vs, cur)
    IN  IF item = <<>> THEN [p |-> NoPlayer, e |-> NoElement]
        ELSE IF p.mounted THEN Render(p, e, item[1], st, timeupdate)
        ELSE Render(NewPlayer, NewElement, item[1], st, FALSE)

\* App renders <Uploader /> only while there is no current video: a mounted
\* Uploader is unmounted when one appears, and a new one is mounted (with its
\* initial state) when it goes. The setIsLoading of a running import belongs
\* to the Uploader that started it (attached, while that one is mounted).
RenderUploader(up, vs, cur) ==
    IF CurrentVideo(vs, cur) # <<>> THEN NoUploader
    ELSE IF up.mounted THEN up ELSE NewUploader

RenderImports(ims, vs, cur) ==
    IF CurrentVideo(vs, cur) # <<>>
    THEN [i \in 1..Len(ims) |-> [ims[i] EXCEPT !.attached = FALSE]]
    ELSE ims

\* A library or "Next in Vault" entry is clicked (id; the lists shown beside
\* a player leave out the current video), or Back (Null)
Select(id) ==
    /\ id # Null => id # currentVideoId
    /\ player.mounted => player.binds < MaxBinds
    /\ currentVideoId' = id
    /\ UNCHANGED <<videos, settings>>
    /\ storage' = Persisted(videos', currentVideoId', settings')
    /\ \E timeupdate \in IF el.exists THEN LoadTimeUpdates(el) ELSE {FALSE} :
         LET S == Rerender(player, el, videos', currentVideoId', settings',
                           timeupdate)
         IN  player' = S.p /\ el' = S.e
    /\ uploader' = RenderUploader(uploader, videos', currentVideoId')
    /\ imports' = RenderImports(imports, videos', currentVideoId')
    /\ last' = [op |-> "select", id |-> id]
    /\ UNCHANGED <<clock, insertOrder, thumbVars, blobs>>

\* The element has read the metadata of its source: a start position set
\* before is sought, and loadedmetadata is queued
EmitLoadedMetadata ==
    /\ el.exists /\ el.src # "" /\ ~el.metadata /\ el.error = "none"
    /\ LET known == QueueTask([el EXCEPT !.metadata = TRUE,
                                         !.duration = Media.duration,
                                         !.currentTime = 0],
                              <<"loadedmetadata">>)
       IN  el' = IF el.currentTime > 0 THEN SetCurrentTime(known, el.currentTime)
                 ELSE known
    /\ Len(el'.queue) <= MaxQueue
    /\ last' = [op |-> "emit", type |-> "loadedmetadata"]
    /\ UNCHANGED <<videos, currentVideoId, settings, storage, insertOrder,
                   thumbVars, player, clock, docVars>>

\* The element fails: the source is not supported (before the metadata) or
\* the media cannot be decoded further (after it)
EmitError ==
    /\ el.exists /\ el.src # "" /\ el.error = "none"
    /\ el' = QueueTask([el EXCEPT !.error = IF el.metadata THEN "decode"
                                             ELSE "unsupported"],
                       <<"error">>)
    /\ Len(el'.queue) <= MaxQueue
    /\ last' = [op |-> "emit", type |-> "error"]
    /\ UNCHANGED <<videos, currentVideoId, settings, storage, insertOrder,
                   thumbVars, player, clock, docVars>>

\* Playback advances; at the end of the media the element pauses itself
Tick ==
    /\ el.exists /\ el.metadata /\ el.error = "none" /\ ~el.paused
    /\ el.currentTime < el.duration.num
    /\ LET t == Min(el.currentTime + Media.step, el.duration.num)
       IN  el' = IF t = el.duration.num
                 THEN QueueTask([el EXCEPT !.currentTime = t, !.paused = TRUE],
                                <<"timeupdate", "pause">>)
                 ELSE QueueTask([el EXCEPT !.currentTime = t], <<"timeupdate">>)
    /\ Len(el'.queue) <= MaxQueue
    /\ last' = [op |-> "emit", type |-> "timeupdate"]
    /\ UNCHANGED <<videos, currentVideoId, settings, storage, insertOrder,
                   thumbVars, player, clock, docVars>>

\* The oldest task of the element runs: the listeners of its events are
\* called; a catalog write is persisted and App renders again
Deliver ==
    /\ el.exists /\ el.queue # <<>>
    /\ LET task == Head(el.queue)
           S == RunTask([p |-> player, e |-> [el EXCEPT !.queue = Tail(@)],
                         vs |-> videos], task.types, clock)
           wrote == \E i \in 1..Len(task.types) :
                        /\ task.types[i] = "timeupdate"
                        /\ el.listeners.timeupdate # <<>>
           R == Rerender(S.p, S.e, S.vs, currentVideoId, settings, FALSE)
       IN  /\ videos' = S.vs
           /\ player' = R.p
           /\ el' = R.e
           /\ storage' = IF wrote THEN Persisted(S.vs, currentVideoId, settings)
                         ELSE storage
           /\ last' = [op |-> "deliver", task |-> task,
                       to |-> el.listeners]
    /\ Len(el'.queue) <= MaxQueue
    /\ UNCHANGED <<currentVideoId, settings, insertOrder, thumbVars, clock, docVars>>

NextBinding ==
    \/ \E id \in PlayerIds \cup {Null} : Select(id)
    \/ EmitLoadedMetadata
    \/ EmitError
    \/ Tick
    \/ Deliver

(***************************************************************************)
(* Player actions: the controls                                            *)
(***************************************************************************)
SeekStep == 10000      \* seek(-10), seek(10): seconds in the code
TapWindow == 300       \* handleTap: milliseconds
CueDuration == 500     \* seek: the skip feedback timer
ControlsDelay == 3000  \* handleMouseMove: the controls timer
VolumeStep == 10       \* ArrowUp, ArrowDown: 0.1 in the code

\* The surface (containerRef's bounding rect) and the x of the taps
Surface == [left |-> 0, width |-> 640]
TapXs == {100, 500}

\* togglePlay: the request it makes of the element
TogglePlayCall(e) == [call |-> IF e.paused THEN "play" ELSE "pause"]
TogglePlay(e) == IF e.paused THEN Play(e) ELSE Pause(e)

\* seek(amount) at time t: the position moves, the cue is shown and a timer
\* is set that hides it
Seek(S, amount, t) ==
    [p |-> [S.p EXCEPT !.skipFeedback = IF amount < 0 THEN "left" ELSE "right",
                       !.cueTimers = @ \cup {t + CueDuration}],
     e |-> SetCurrentTime(S.e, S.e.currentTime + amount)]

\* handleMouseMove at time t: the controls are shown and the controls timer
\* is set anew, with the isPlaying of this render
HandleMouseMove(p, t) ==
    [p EXCEPT !.showControls = TRUE,
              !.controlsTimer = [set |-> TRUE, due |-> t + ControlsDelay,
                                 isPlaying |-> p.isPlaying]]

\* The positions the model lets a seek reach
SeekAllowed(amount) ==
    el.metadata \/ (el.currentTime + amount) \in PreloadPositions

\* A control that changes neither the store nor the clock
ControlFrame ==
    UNCHANGED <<videos, currentVideoId, settings, storage, insertOrder,
                thumbVars, clock, docVars>>

\* A control calls updateSettings(patch): the store is written and persisted,
\* the component renders and the settings effect runs
SettingsChanged(patch) ==
    /\ settings' = UpdateSettingsResult(settings, patch)
    /\ UNCHANGED <<videos, currentVideoId>>
    /\ storage' = Persisted(videos', currentVideoId', settings')
    /\ LET S == Rerender(player, el, videos', currentVideoId', settings', FALSE)
       IN  player' = S.p /\ el' = S.e
    /\ UNCHANGED <<insertOrder, thumbVars, clock, docVars>>

\* Faulty variant of the ArrowUp step: no cap
VolumeUpNoCap(v) == v + VolumeStep
\* Math.min(1, settings.volume + 0.1) and Math.max(0, settings.volume - 0.1)
VolumeUp(v) == Min(100, v + VolumeStep)
VolumeDown(v) == Max(0, v - VolumeStep)

KeyCodes == {"Space", "ArrowLeft", "ArrowRight", "ArrowUp", "ArrowDown", "KeyM"}

\* keydown on the window while no input or textarea has the focus
KeyDown(code) ==
    /\ player.mounted
    /\ \/ /\ code = "Space"
          /\ el' = TogglePlay(el)
          /\ last' = [op |-> "keydown", code |-> code,
                      calls |-> <<TogglePlayCall(el)>>]
          /\ UNCHANGED player
          /\ ControlFrame
       \/ /\ code \in {"ArrowLeft", "ArrowRight"}
          /\ LET amount == IF code = "ArrowLeft" THEN -SeekStep ELSE SeekStep
                 S == Seek([p |-> player, e |-> el], amount, clock)
             IN  /\ SeekAllowed(amount)
                 /\ player' = S.p
                 /\ el' = S.e
                 /\ last' = [op |-> "keydown", code |-> code,
                             calls |-> <<[call |-> "seek", amount |-> amount]>>]
          /\ ControlFrame
       \/ /\ code = "ArrowUp"
          /\ SettingsChanged([volume |-> VolumeUp(settings.volume)])
          /\ last' = [op |-> "keydown", code |-> code, calls |-> <<>>,
                      from |-> settings.volume]
       \/ /\ code = "ArrowDown"
          /\ SettingsChanged([volume |-> VolumeDown(settings.volume)])
          /\ last' = [op |-> "keydown", code |-> code, calls |-> <<>>,
                      from |-> settings.volume]
       \/ /\ code = "KeyM"
          /\ SettingsChanged([isMuted |-> ~settings.isMuted])
          /\ last' = [op |-> "keydown", code |-> code, calls |-> <<>>]
    /\ Len(el'.queue) <= MaxQueue

\* The play buttons (the centre button is rendered while not playing and not
\* errored, the bar's button is disabled while errored)
ClickPlay ==
    /\ player.mounted
    /\ ~player.loadError
    /\ el' = TogglePlay(el)
    /\ Len(el'.queue) <= MaxQueue
    /\ last' = [op |-> "clickPlay", calls |-> <<TogglePlayCall(el)>>]
    /\ UNCHANGED player
    /\ ControlFrame

\* The volume slider, the speed menu and the mute button (the speed menu is
\* drawn above the error overlay)
SettingsControl(patch) ==
    /\ player.mounted
    /\ SettingsChanged(patch)
    /\ Len(el'.queue) <= MaxQueue
    /\ last' = [op |-> "settingsControl", patch |-> patch, calls |-> <<>>]

IsLeftSide(x) == 2 * (x - Surface.left) < Surface.width

\* lastTapRef.current && (now - lastTapRef.current.time) < 300
SecondTap(tap, t) == tap.set /\ t - tap.time < TapWindow

\* A click on the <video> surface at x (the error overlay covers it while
\* errored). last.gesture holds the requests of a double tap's two taps.
HandleTap(x) ==
    /\ player.mounted
    /\ ~player.loadError
    /\ LET amount == IF IsLeftSide(x) THEN -SeekStep ELSE SeekStep
           seekCall == <<[call |-> "seek", amount |-> amount]>>
           first == [player EXCEPT !.lastTap = [set |-> TRUE, time |-> clock,
                                               x |-> x]]
       IN  IF SecondTap(player.lastTap, clock)
           THEN LET S == Seek([p |-> [player EXCEPT !.lastTap = NoTap,
                                                    !.tapCalls = <<>>],
                               e |-> el], amount, clock)
                IN  /\ SeekAllowed(amount)
                    /\ player' = S.p
                    /\ el' = S.e
                    /\ last' = [op |-> "tap", x |-> x, double |-> TRUE,
                                calls |-> seekCall,
                                gesture |-> player.tapCalls \o seekCall]
           ELSE IF player.isPlaying
           THEN /\ player' = HandleMouseMove([first EXCEPT !.tapCalls = <<>>],
                                             clock)
                /\ el' = el
                /\ last' = [op |-> "tap", x |-> x, double |-> FALSE,
                            calls |-> <<>>]
           ELSE /\ player' = [first EXCEPT !.tapCalls = <<TogglePlayCall(el)>>]
                /\ el' = TogglePlay(el)
                /\ last' = [op |-> "tap", x |-> x, double |-> FALSE,
                            calls |-> <<TogglePlayCall(el)>>]
    /\ Len(el'.queue) <= MaxQueue
    /\ ControlFrame

\* URL.createObjectURL: a new URL, live until it is revoked
CreateObjectUrl(b) == [next |-> b.next + 1, live |-> b.live \cup {b.next}]

\* The <track> children the component renders into the <video> element
Tracks(p) == IF p.mounted /\ p.subtitleUrl # Null THEN <<p.subtitleUrl>> ELSE <<>>

\* Caption files chosen in one document
MaxCaptions == 3

\* The caption input changes: with a file chosen, an object URL is made for
\* it and becomes the subtitleUrl state; without one nothing happens
HandleSubtitleUpload(chosen) ==
    /\ player.mounted
    /\ blobs.next <= MaxCaptions
    /\ IF chosen
       THEN /\ blobs' = CreateObjectUrl(blobs)
            /\ player' = [player EXCEPT !.subtitleUrl = blobs.next]
       ELSE UNCHANGED <<blobs, player>>
    /\ last' = [op |-> "subtitleUpload", chosen |-> chosen]
    /\ UNCHANGED <<videos, currentVideoId, settings, storage, insertOrder,
                   thumbVars, clock, el, uploader, imports>>

\* Time passes
MaxClock == 400
ClockSteps == {100, 300}

\* The due times of the pending cue timers (an unmounted component's timers
\* set the state of nothing)
CueTimers(p) == IF p.mounted THEN p.cueTimers ELSE {}

\* A timer runs when it is due: time does not pass a pending timer
AdvanceClock(d) ==
    /\ clock + d <= MaxClock
    /\ \A due \in CueTimers(player) : clock + d <= due
    /\ clock' = clock + d
    /\ last' = [op |-> "advanceClock", d |-> d]
    /\ UNCHANGED <<videos, currentVideoId, settings, storage, insertOrder,
                   thumbVars, player, el, docVars>>

\* Binding and playback: the selection, the element's events and the keys
\* that play, pause and seek
PlaybackKeys == {"Space", "ArrowLeft", "ArrowRight"}

NextPlayer ==
    \/ NextBinding
    \/ \E code \in PlaybackKeys : KeyDown(code)

SpecPlayer == InitPlayerSpec /\ [][NextPlayer]_vars

(***************************************************************************)
(* Properties of the player: binding and events                            *)
(***************************************************************************)
\* C12: whatever the number of binds, the element holds at most one listener
\* for each of the five event types.
C12_OneHandlerPerEvent ==
    el.exists => \A t \in EventTypes : Len(el.listeners[t]) <= 1

\* The controller state and the catalog positions that a stale event must
\* leave alone
Progress(vs) == [i \in 1..Len(vs) |-> IF Has(vs[i], "progress")
                                      THEN <<vs[i].progress>> ELSE <<>>]
ControllerFacts(p) == <<p.loadError, p.duration, p.currentTime, p.isPlaying>>

\* C13: a task that was queued under an earlier binding and runs after the
\* rebind to another item changes neither the error flag, the duration, the
\* visible position or the playing flag, nor any catalog position.
C13_StaleEventsIgnored ==
    [][(/\ last'.op = "deliver"
        /\ el.exists /\ el.queue # <<>>
        /\ Head(el.queue).origin # currentVideoId)
       => /\ ControllerFacts(player') = ControllerFacts(player)
          /\ Progress(videos') = Progress(videos)]_vars

\* A step that binds: an item is selected and the component is mounted for
\* it, or the mounted component's bind effect runs for it
BindStep ==
    /\ last'.op = "select"
    /\ player'.mounted
    /\ player.mounted => player'.deps # player.deps

\* C14: after a bind (a mount or a rebind, from any state, to any item), the
\* error flag is clear and the element's src is that item's source.
C14_BindClearsAndAttaches ==
    [][BindStep
       => /\ ~player'.loadError
          /\ el'.src = CurrentVideo(videos', currentVideoId')[1].source]_vars

(***************************************************************************)
(* The errored player: every kind of control and every event               *)
(***************************************************************************)
ErroredKeys == {"Space", "ArrowLeft", "KeyM"}
ErroredIds == {1, 3}
ErroredTapXs == {100}
ErroredPatches == {[playbackRate |-> 150]}

NextErrored ==
    \/ \E id \in ErroredIds \cup {Null} : Select(id)
    \/ EmitLoadedMetadata
    \/ EmitError
    \/ Tick
    \/ Deliver
    \/ \E code \in ErroredKeys : KeyDown(code)
    \/ ClickPlay
    \/ \E x \in ErroredTapXs : HandleTap(x)
    \/ \E patch \in ErroredPatches : SettingsControl(patch)

SpecErrored == InitPlayerSpec /\ [][NextErrored]_vars

\* C15: while the error flag is set, no step but a bind (and the unmount)
\* clears it, and no such step loads the element again: the number of loads,
\* the element's src and its error stay as they are.
C15_ErroredUntilBind ==
    [][(player.mounted /\ player.loadError /\ player'.mounted /\ ~BindStep)
       => /\ player'.loadError
          /\ player'.binds = player.binds
          /\ el'.src = el.src
          /\ el'.error = el.error]_vars

\* The media failed to decode after its metadata; Space asked the element to
\* play and its play event was delivered with the flag still set
C15_Witness ==
    /\ player.mounted
    /\ player.loadError
    /\ el.error = "decode"
    /\ last.op = "deliver"
    /\ last.task.types = <<"play">>

\* A step that delivers timeupdate to a registered handleTimeUpdate
TimeUpdateHandled ==
    /\ last'.op = "deliver"
    /\ el.exists /\ el.queue # <<>>
    /\ \E i \in 1..Len(Head(el.queue).types) : Head(el.queue).types[i] = "timeupdate"
    /\ el.listeners.timeupdate # <<>>

\* C16: every timeupdate that is handled leaves the element's position in the
\* catalog entry of the bound (current) item, and every other entry as it was.
C16_WriteThrough ==
    [][TimeUpdateHandled
       => /\ Len(videos') = Len(videos)
          /\ \A i \in 1..Len(videos') :
                IF videos'[i].id = currentVideoId
                THEN Has(videos'[i], "progress") /\ videos'[i].progress = el'.currentTime
                ELSE videos'[i] = videos[i]]_vars

\* Item 1, never played before, is playing and has reached 10 s: the tick's
\* timeupdate was handled and the catalog entry holds 10 s
C16_Witness ==
    /\ currentVideoId = 1
    /\ last.op = "deliver"
    /\ last.task.types = <<"timeupdate">>
    /\ last.to.timeupdate # <<>>
    /\ ~el.paused
    /\ el.currentTime = 10000
    /\ \E i \in 1..Len(videos) :
          videos[i].id = 1 /\ Has(videos[i], "progress") /\ videos[i].progress = 10000

\* A step that delivers a play or a pause event of the element
PlayPauseDelivered ==
    /\ last'.op = "deliver"
    /\ \E i \in 1..Len(last'.task.types) : last'.task.types[i] \in {"play", "pause"}

\* C24: the playing flag of a mounted player changes only in a step that
\* delivers a play or pause event of the element (so no key, tap, button or
\* other control sets it), and after every such step the flag says what the
\* element does: set when it is not paused, clear when it is paused.
C24_FlagMirrorsElement ==
    /\ [][(player.mounted /\ player'.mounted
           /\ player'.isPlaying # player.isPlaying) => PlayPauseDelivered]_vars
    /\ [][PlayPauseDelivered => player'.isPlaying = ~el'.paused]_vars

\* A step that delivers loadedmetadata to a registered handleLoadedMetadata
MetadataHandled ==
    /\ last'.op = "deliver"
    /\ el.exists /\ el.queue # <<>>
    /\ Head(el.queue).types = <<"loadedmetadata">>
    /\ el.listeners.loadedmetadata # <<>>

\* C25: when loadedmetadata is handled and the catalog entry of the bound
\* item holds a saved position p, the element is at p afterwards (at the end
\* of the media when p lies beyond it); when the entry holds none, the
\* handler issues no seek: the position stays and no task is queued.
C25_ResumeSavedPosition ==
    [][MetadataHandled
       => LET item == CurrentVideo(videos, currentVideoId)[1]
          IN  IF Has(item, "progress")
              THEN el'.currentTime = Min(item.progress, el.duration.num)
              ELSE /\ el'.currentTime = el.currentTime
                   /\ el'.queue = Tail(el.queue)]_vars

(***************************************************************************)
(* The preferences and the element                                         *)
(***************************************************************************)
PrefKeys == {"ArrowUp", "ArrowDown", "KeyM"}

\* The volume slider at 0.95, the speed menu's 1.5x and the mute button
PrefPatches(st) ==
    {[volume |-> 95], [playbackRate |-> 150], [isMuted |-> ~st.isMuted]}

NextPrefs ==
    \/ \E id \in PlayerIds \cup {Null} : Select(id)
    \/ \E code \in PrefKeys : KeyDown(code)
    \/ \E patch \in PrefPatches(settings) : SettingsControl(patch)

SpecPrefs == InitPlayerSpec /\ [][NextPrefs]_vars

\* C17: whenever there is an element, its volume, rate and mute are those of
\* the stored preferences: after every key, slider, menu or button that
\* changes them and after every mount and rebind; so no step changes them on
\* the element without the preference holding the same value.
C17_ElementFollowsPreferences ==
    el.exists =>
        /\ el.volume = settings.volume
        /\ el.playbackRate = settings.playbackRate
        /\ el.muted = settings.isMuted
        /\ storage[1].state.settings = settings

\* After volume keys, the speed menu and a mute, an item was bound a second
\* time on the same element
C17_Witness ==
    /\ last.op = "select"
    /\ player.mounted
    /\ player.binds = 2
    /\ settings.volume = 100
    /\ settings.playbackRate = 150
    /\ settings.isMuted
    /\ el.volume = 100
    /\ el.playbackRate = 150
    /\ el.muted

\* C21: from the default preferences, under any sequence of ArrowUp and
\* ArrowDown keys and volume slider changes, the stored volume (in the store
\* and in storage) stays within [0, 1]; ArrowUp stores the volume plus 0.1 or
\* 1 when that is more (0.95 becomes 1.0), ArrowDown stores the volume minus
\* 0.1 or 0 when that is less.
C21_VolumeClamped ==
    /\ [](/\ settings.volume \in 0..100
          /\ storage[1].state.settings.volume \in 0..100)
    /\ [][(last'.op = "keydown" /\ last'.code = "ArrowUp")
          => settings'.volume =
               IF settings.volume + VolumeStep > 100 THEN 100
               ELSE settings.volume + VolumeStep]_vars
    /\ [][(last'.op = "keydown" /\ last'.code = "ArrowDown")
          => settings'.volume =
               IF settings.volume - VolumeStep < 0 THEN 0
               ELSE settings.volume - VolumeStep]_vars

\* The slider had put the volume at 0.95; ArrowUp made it 1.0
C21_Witness ==
    /\ last.op = "keydown"
    /\ last.code = "ArrowUp"
    /\ last.from = 95
    /\ settings.volume = 100
    /\ el.volume = 100

(***************************************************************************)
(* Taps on the surface                                                     *)
(***************************************************************************)
\* Taps in the first 400 ms after a mount, before the element has read the
\* metadata of its source; the seeks move the start position
TapIds == {1, 3}

NextTap ==
    \/ \E id \in TapIds \cup {Null} : Select(id)
    \/ Deliver
    \/ \E x \in TapXs : HandleTap(x)
    \/ \E d \in ClockSteps : AdvanceClock(d)

SpecTap == InitPlayerSpec /\ [][NextTap]_vars

HasSeek(calls) == \E i \in 1..Len(calls) : calls[i].call = "seek"

SameHalf(tap, x) == tap.set /\ IsLeftSide(tap.x) = IsLeftSide(x)

\* C18: a tap seeks exactly when a tap is pending, less than 300 ms old and on
\* the same half as the new tap, by -10 s on the left half and +10 s on the
\* right half; so taps on opposite halves and taps 300 ms or more apart do
\* not seek.
C18_SeekIffSameHalfWithinWindow ==
    [][last'.op = "tap"
       => /\ HasSeek(last'.calls) <=>
                /\ player.lastTap.set
                /\ clock - player.lastTap.time < TapWindow
                /\ SameHalf(player.lastTap, last'.x)
          /\ HasSeek(last'.calls) =>
                last'.calls = <<[call |-> "seek",
                                 amount |-> IF IsLeftSide(last'.x)
                                            THEN -SeekStep ELSE SeekStep]>>]_vars

\* C19: the two taps of a double tap on the left half make one request of the
\* element between them, the seek by -10 s, and no play or pause request (the
\* action of a single tap is not taken for the first tap); after the second
\* tap no tap is pending.
C19_DoubleTapSeeksOnly ==
    [][(/\ last'.op = "tap"
        /\ last'.double
        /\ IsLeftSide(last'.x)
        /\ SameHalf(player.lastTap, last'.x))
       => /\ last'.gesture = <<[call |-> "seek", amount |-> -SeekStep]>>
          /\ player'.lastTap = NoTap]_vars

\* C20: a tap that is not the second of a double tap seeks nothing; with the
\* playing flag clear it makes exactly one request, play; with the flag set it
\* makes no request and shows the controls.
C20_SingleTapToggles ==
    [][(last'.op = "tap" /\ ~last'.double)
       => /\ ~HasSeek(last'.calls)
          /\ ~player.isPlaying => last'.calls = <<[call |-> "play"]>>
          /\ player.isPlaying => last'.calls = <<>> /\ player'.showControls]_vars

(***************************************************************************)
(* The seek cue and its timers                                             *)
(***************************************************************************)
\* () => setSkipFeedback(null), the callback of the timer that was due
CueTimeout(p, due) == [p EXCEPT !.skipFeedback = "none", !.cueTimers = @ \ {due}]

\* A cue timer that is due runs
RunCueTimer ==
    /\ \E due \in CueTimers(player) :
          /\ due <= clock
          /\ player' = CueTimeout(player, due)
          /\ last' = [op |-> "cueTimeout", due |-> due]
    /\ UNCHANGED <<videos, currentVideoId, settings, storage, insertOrder,
                   thumbVars, el, clock, docVars>>

\* Nothing else happens until the next cue timer is due
AwaitTimer ==
    /\ CueTimers(player) # {}
    /\ \A due \in CueTimers(player) : clock < due
    /\ \E due \in CueTimers(player) :
          /\ \A other \in CueTimers(player) : due <= other
          /\ clock' = due
    /\ last' = [op |-> "awaitTimer"]
    /\ UNCHANGED <<videos, currentVideoId, settings, storage, insertOrder,
                   thumbVars, player, el, docVars>>

\* Seeks by the arrow keys during the first MaxClock milliseconds, on item 1
\* before and after its metadata is known, and the timers they set
SeekKeys == {"ArrowLeft", "ArrowRight"}
CueIds == {1}

NextCue ==
    \/ \E id \in CueIds \cup {Null} : Select(id)
    \/ EmitLoadedMetadata
    \/ Deliver
    \/ \E code \in SeekKeys : clock <= MaxClock /\ KeyDown(code)
    \/ \E d \in ClockSteps : AdvanceClock(d)
    \/ RunCueTimer
    \/ AwaitTimer

\* Timers that are due run, and time passes
CueFairness == WF_vars(RunCueTimer) /\ WF_vars(AwaitTimer)

SpecCue == InitPlayerSpec /\ [][NextCue]_vars /\ CueFairness

Cue(p) == IF p.mounted THEN p.skipFeedback ELSE "none"

SeekStepTaken == last'.op = "keydown" /\ last'.calls # <<>>

\* C27: a seek shows the cue of its direction (left for a negative amount,
\* right otherwise); the cue stays shown as long as a seek is less than
\* 500 ms old, also when an earlier seek is; only a seek or a timer changes
\* it; it is cleared once no seek is less than 500 ms old; and a shown cue is
\* always eventually cleared.
C27_CueFollowsLastSeek ==
    /\ [][SeekStepTaken
          => Cue(player') = IF last'.calls[1].amount < 0 THEN "left" ELSE "right"]_vars
    /\ []((\E due \in CueTimers(player) : clock < due) => Cue(player) # "none")
    /\ [][(player.mounted /\ player'.mounted /\ Cue(player') # Cue(player))
          => (SeekStepTaken \/ last'.op = "cueTimeout")]_vars
    /\ [](CueTimers(player) = {} => Cue(player) = "none")
    /\ ((Cue(player) # "none") ~> (Cue(player) = "none"))

(***************************************************************************)
(* Captions                                                                *)
(***************************************************************************)
NextCaptions ==
    \/ \E id \in PlayerIds \cup {Null} : Select(id)
    \/ \E chosen \in BOOLEAN : HandleSubtitleUpload(chosen)

SpecCaptions == InitPlayerSpec /\ [][NextCaptions]_vars

\* C22: after any sequence of caption attaches, the element holds at most one
\* caption track and at most one caption URL is live (not revoked): an attach
\* replaces the track and releases the URL of the caption before it.
C22_OneCaptionOneLocator ==
    /\ Len(Tracks(player)) <= 1
    /\ Cardinality(blobs.live) <= 1

(***************************************************************************)
(* Ingestion: the Uploader component                                       *)
(*                                                                         *)
(* A File is its name (the parts between the dots), its media type (the    *)
(* parts around the slash, <<>> for the empty type), its size and what a   *)
(* decode session finds in it.  An import is one running call of           *)
(* handleLocalUpload ("files") or scanFolder ("scan"): its files, the      *)
(* index k of the file it is at, its stage ("extracting": awaiting         *)
(* generateThumbnail; "next": awaiting the directory iterator and getFile; *)
(* "done") and whether the Uploader that started it is still mounted.     *)
(* Finished imports stay in the sequence as history.  Of an extraction     *)
(* only the start and the resolution are kept here; its steps are those of *)
(* the thumbnail extraction above.  The directory walk is the sequence of  *)
(* the files it finds (sub-directories are walked in place, awaited).      *)
(***************************************************************************)
Undecodable ==
    [decodable |-> FALSE, duration |-> Num(0), videoWidth |-> 0, videoHeight |-> 0]
Movie ==
    [decodable |-> TRUE, duration |-> Num(20000), videoWidth |-> 1280,
     videoHeight |-> 720]

Clip == [name |-> <<"clip", "mp4">>, type |-> <<"video", "mp4">>, size |-> 1,
         media |-> Movie]
Broken == [name |-> <<"broken", "mkv">>, type |-> <<>>, size |-> 2,
           media |-> Undecodable]
Notes == [name |-> <<"notes", "txt">>, type |-> <<"text", "plain">>, size |-> 3,
          media |-> Undecodable]
Upper == [name |-> <<"MOVIE", "MKV">>, type |-> <<>>, size |-> 4, media |-> Movie]
Bare == [name |-> <<"mp4">>, type |-> <<>>, size |-> 5, media |-> Undecodable]

\* String.prototype.toLowerCase on the name parts of this model
ToLowerCase(str) ==
    CASE str = "MOVIE" -> "movie"
      [] str = "MKV" -> "mkv"
      [] OTHER -> str

\* file.name.split('.').pop()
LastPart(name) == name[Len(name)]

VideoExts == {"mp4", "mkv", "webm", "mov", "avi", "mp3", "ogg", "wav"}

\* processEntry: type.startsWith('video/') || type.startsWith('audio/') ||
\* (ext && videoExts.includes(ext)), ext the lower-cased last part
ScanAccepts(f) ==
    \/ f.type # <<>> /\ f.type[1] \in {"video", "audio"}
    \/ ToLowerCase(LastPart(f.name)) \in VideoExts

\* The values generateThumbnail(file) resolves with: the captured frame of a
\* source that was decoded, or the degraded result after an error
Outcomes(f) ==
    IF f.media.decodable THEN {SeekedResult(f.media), ErrorResult}
    ELSE {ErrorResult}

\* crypto.randomUUID(): an identifier that no catalog entry holds
RandomUUID(vs) == CHOOSE id \in 1..(Len(vs) + 1) : id \notin Ids(vs)

\* The VideoItem both paths build; format is the last part of the name,
\* lower-cased on the scan path
ImportedItem(id, f, res, kind, t) ==
    [id |-> id, title |-> f.name[1], source |-> "blob:", type |-> "local",
     thumbnail |-> res.thumbnail,
     metadata |-> [duration |-> res.duration, width |-> res.width,
                   height |-> res.height,
                   format |-> IF kind = "scan" THEN ToLowerCase(LastPart(f.name))
                              ELSE LastPart(f.name),
                   size |-> f.size],
     addedAt |-> t]

NewImport(kind, files, stage) ==
    [kind |-> kind, files |-> files, k |-> 1, stage |-> stage, attached |-> TRUE]

\* Bounds: the imports started in one document, and the length of the
\* batches and directories that are enumerated
MaxImports == 2
MaxBatch == 2

\* Faulty variant: the loop ends after the file it is at
ContinueNoMore(im) == [im EXCEPT !.k = @ + 1, !.stage = "done"]
\* The import after its file was added: handleLocalUpload goes on to the next
\* file (its extraction starts at once) or ends; processEntry asks the
\* iterator for the next entry
Continue(im) ==
    [im EXCEPT !.k = @ + 1,
               !.stage = IF im.kind = "scan" THEN "next"
                         ELSE IF im.k < Len(im.files) THEN "extracting"
                         ELSE "done"]

\* setIsLoading(value) of the import i: a state update of an unmounted
\* component is dropped
SetIsLoading(up, im, value) ==
    IF up.mounted /\ im.attached THEN [up EXCEPT !.isLoading = value] ELSE up

\* The file input changes (it is disabled while isLoading): nothing for an
\* empty list; otherwise isLoading is set and the first file's extraction
\* starts. The input's accept attribute is a hint to the file chooser: any
\* file can be chosen.
HandleLocalUpload(files) ==
    /\ uploader.mounted /\ ~uploader.isLoading
    /\ Len(imports) < MaxImports
    /\ IF files = <<>>
       THEN UNCHANGED <<uploader, imports>>
       ELSE /\ uploader' = [uploader EXCEPT !.isLoading = TRUE]
            /\ imports' = Append(imports, NewImport("files", files, "extracting"))
    /\ last' = [op |-> "handleLocalUpload", files |-> files]
    /\ UNCHANGED <<videos, currentVideoId, settings, storage, insertOrder,
                   thumbVars, playerVars, blobs>>

\* "Sync Folder" is clicked (disabled while isLoading) and a directory is
\* picked: isLoading is set and the walk starts
ScanFolder(files) ==
    /\ uploader.mounted /\ ~uploader.isLoading
    /\ Len(imports) < MaxImports
    /\ uploader' = [uploader EXCEPT !.isLoading = TRUE]
    /\ imports' = Append(imports, NewImport("scan", files, "next"))
    /\ last' = [op |-> "scanFolder", files |-> files]
    /\ UNCHANGED <<videos, currentVideoId, settings, storage, insertOrder,
                   thumbVars, playerVars, blobs>>

\* processEntry, one turn of the loop of the import i: the walk is over
\* (finally: setIsLoading(false)), or the next file was read and is either
\* passed to generateThumbnail or skipped
ProcessEntry(i) ==
    /\ i \in 1..Len(imports)
    /\ imports[i].stage = "next"
    /\ LET im == imports[i]
       IN  IF im.k > Len(im.files)
           THEN /\ imports' = [imports EXCEPT ![i].stage = "done"]
                /\ uploader' = SetIsLoading(uploader, im, FALSE)
           ELSE /\ imports' = IF ScanAccepts(im.files[im.k])
                              THEN [imports EXCEPT ![i].stage = "extracting"]
                              ELSE [imports EXCEPT ![i].k = @ + 1]
                /\ UNCHANGED uploader
    /\ last' = [op |-> "processEntry", import |-> i]
    /\ UNCHANGED <<videos, currentVideoId, settings, storage, insertOrder,
                   thumbVars, playerVars, blobs>>

\* The extraction the import i awaits resolves with res, at time t: the item
\* is built and added; a file chosen alone becomes the current video (App
\* renders the player in place of the Uploader); then the loop continues:
\* handleLocalUpload starts the next file's extraction or ends with
\* setIsLoading(false), processEntry asks the iterator for the next entry
Extracted(i, res, timeupdate) ==
    /\ i \in 1..Len(imports)
    /\ imports[i].stage = "extracting"
    /\ LET im == imports[i]
           f == im.files[im.k]
           item == ImportedItem(RandomUUID(videos), f, res, im.kind, clock)
           alone == im.kind = "files" /\ Len(im.files) = 1
           S == Rerender(player, el, videos', currentVideoId', settings,
                         timeupdate)
           rendered == RenderImports(imports, videos', currentVideoId')
           after == Continue(rendered[i])
       IN  /\ res \in Outcomes(f)
           /\ videos' = AddVideoResult(videos, item)
           /\ currentVideoId' = IF alone THEN item.id ELSE currentVideoId
           /\ storage' = Persisted(videos', currentVideoId', settings)
           /\ insertOrder' = KeepPresent(<<item.id>> \o IdsWithout(insertOrder, item.id),
                                         videos')
           /\ player' = S.p
           /\ el' = S.e
           /\ imports' = [rendered EXCEPT ![i] = after]
           /\ uploader' =
                LET up == RenderUploader(uploader, videos', currentVideoId')
                IN  IF after.stage = "done" THEN SetIsLoading(up, after, FALSE)
                    ELSE up
           /\ last' = [op |-> "extracted", import |-> i, file |-> f,
                       result |-> res, item |-> item]
    /\ UNCHANGED <<settings, thumbVars, clock, blobs>>

\* Whether the load of a rebind fires timeupdate
Timeupdates == IF el.exists THEN LoadTimeUpdates(el) ELSE {FALSE}

\* The results an extraction can resolve with
Results ==
    {SeekedResult(Movie), ErrorResult}

\* The file chooser's selections: every list of up to MaxBatch files, and
\* one list of as many files as the catalog holds (the second one decodable)
PickerFiles == {Clip, Broken, Notes}
Batches == UNION {[1..n -> PickerFiles] : n \in 0..MaxBatch}
FullBatch ==
    [k \in 1..MaxVideos |-> IF k = 2 THEN [Clip EXCEPT !.size = 100 + k]
                            ELSE [Broken EXCEPT !.size = 100 + k]]

\* The first run of the program: nothing stored, the catalog is empty
InitIngestSpec == InitThumbnailSpec

NextBatch ==
    \/ \E files \in Batches \cup {FullBatch} : HandleLocalUpload(files)
    \/ \E i \in 1..MaxImports, res \in Results, timeupdate \in Timeupdates :
          Extracted(i, res, timeupdate)

SpecBatch == InitIngestSpec /\ [][NextBatch]_vars

\* C23: when the first import into the empty catalog, a list of n files (n up
\* to 50) chosen in the file input, has ended, the catalog holds exactly n
\* entries, the entry of the k-th file at position n + 1 - k (the file
\* imported last is first); the entry of a file that cannot be decoded has an
\* empty preview and zero duration, width and height, and the files after it
\* have their entries as well.
C23_BatchImported ==
    (Len(imports) = 1 /\ imports[1].kind = "files" /\ imports[1].stage = "done")
    => LET files == imports[1].files
           n == Len(files)
       IN  /\ Len(videos) = n
           /\ \A k \in 1..n :
                LET v == videos[n + 1 - k]
                IN  /\ v.title = files[k].name[1]
                    /\ v.metadata.size = files[k].size
                    /\ ~files[k].media.decodable =>
                          /\ v.thumbnail = ""
                          /\ v.metadata.duration = Num(0)
                          /\ v.metadata.width = 0
                          /\ v.metadata.height = 0

\* Fifty files were imported; the first could not be decoded, the second was
\* decoded after it and has its preview
C23_Witness ==
    /\ Len(imports) = 1
    /\ imports[1].stage = "done"
    /\ Len(imports[1].files) = MaxVideos
    /\ Len(videos) = MaxVideos
    /\ videos[MaxVideos].thumbnail = ""
    /\ videos[MaxVideos].metadata.size = 101
    /\ videos[MaxVideos - 1].thumbnail = "data:image/jpeg"
    /\ videos[MaxVideos - 1].metadata.size = 102

(***************************************************************************)
(* Store writes while an item is bound                                     *)
(***************************************************************************)
\* The favorite button of the player view: toggleFavorite(currentVideo.id),
\* the store is persisted and App renders again
FavoriteButton ==
    /\ player.mounted
    /\ videos' = ToggleFavoriteResult(videos, currentVideoId)
    /\ UNCHANGED <<currentVideoId, settings>>
    /\ storage' = Persisted(videos', currentVideoId', settings')
    /\ LET S == Rerender(player, el, videos', currentVideoId', settings', FALSE)
       IN  player' = S.p /\ el' = S.e
    /\ last' = [op |-> "toggleFavorite", id |-> currentVideoId]
    /\ UNCHANGED <<insertOrder, thumbVars, clock, docVars>>

\* The mute button
RebindPatches(st) == {[isMuted |-> ~st.isMuted]}

\* The player view stays open: items are chosen from "Next in Vault"
NextRebind ==
    \/ \E id \in PlayerIds : Select(id)
    \/ EmitLoadedMetadata
    \/ Tick
    \/ Deliver
    \/ KeyDown("Space")
    \/ \E patch \in RebindPatches(settings) : SettingsControl(patch)
    \/ FavoriteButton

SpecRebind == InitPlayerSpec /\ [][NextRebind]_vars

\* The step binds: the bind effect runs, or the element's source, bound item
\* or listeners change
Binds ==
    \/ player'.binds # player.binds
    \/ player'.deps # player.deps
    \/ player'.cleanup # player.cleanup
    \/ el'.src # el.src
    \/ el'.boundId # el.boundId
    \/ el'.listeners # el.listeners

\* The step writes the catalog entry of the current video or the settings,
\* and leaves the selection and the entry's id and source as they are
WritesBoundItem ==
    /\ player.mounted
    /\ currentVideoId' = currentVideoId
    /\ \/ CurrentVideo(videos', currentVideoId) # CurrentVideo(videos, currentVideoId)
       \/ settings' # settings
    /\ CurrentVideo(videos', currentVideoId) # <<>>
    /\ BindDeps(CurrentVideo(videos', currentVideoId)[1]) =
          BindDeps(CurrentVideo(videos, currentVideoId)[1])

\* C32: a step that writes the current video's catalog entry without changing
\* its id or source (the progress written on timeupdate, the favorite flag),
\* or that changes the settings, does not bind: the element keeps its source,
\* its position and its listeners and the bind effect does not run; and the
\* delivery of a timeupdate never binds.
C32_NoRebindOnWrite ==
    /\ [][WritesBoundItem =>
            (~Binds /\ player'.mounted /\ el'.currentTime = el.currentTime)]_vars
    /\ [][(last'.op = "deliver"
            /\ \E i \in 1..Len(last'.task.types) : last'.task.types[i] = "timeupdate")
             => ~Binds]_vars

\* A timeupdate of the playing item 1 was delivered: its position is in the
\* catalog, and the element still plays the source of its only bind, at the
\* position reported
C32_Witness ==
    /\ last.op = "deliver"
    /\ last.task.types = <<"timeupdate">>
    /\ currentVideoId = 1
    /\ CurrentVideo(videos, 1)[1].progress = 10000
    /\ player.binds = 1
    /\ el.src = "blob:a"
    /\ el.currentTime = 10000
    /\ ~el.paused

(***************************************************************************)
(* Imports beside the library and the player                               *)
(***************************************************************************)
\* The lists chosen in the file input and the directories picked
IngestBatches == {<<Clip>>, <<Notes>>, <<Broken, Clip>>}
Directories == {<<Clip, Notes>>, <<Upper, Bare>>}

\* While an import runs, the library shows the items added so far: one can be
\* opened (the player replaces the Uploader) and left again with Back
NextIngest ==
    \/ \E files \in IngestBatches : HandleLocalUpload(files)
    \/ \E files \in Directories : ScanFolder(files)
    \/ \E i \in 1..MaxImports : ProcessEntry(i)
    \/ \E i \in 1..MaxImports, res \in Results, timeupdate \in Timeupdates :
          Extracted(i, res, timeupdate)
    \/ \E id \in Ids(videos) \cup {Null} : Select(id)

SpecIngest == InitIngestSpec /\ [][NextIngest]_vars

\* The imports that await an extraction
Extracting == {i \in 1..Len(imports) : imports[i].stage = "extracting"}

\* C28: at any time at most one thumbnail extraction is in flight: an
\* extraction starts only when every extraction started before it has
\* resolved and its item has been added.
C28_OneExtractionInFlight == Cardinality(Extracting) <= 1

\* The allow-list: the name has an extension and it is one of the eight
\* (whatever its case), or the media type starts with video/ or audio/
OnAllowList(f) ==
    \/ Len(f.name) > 1 /\ ToLowerCase(LastPart(f.name)) \in VideoExts
    \/ f.type # <<>> /\ f.type[1] \in {"video", "audio"}

\* C29: every file that is passed to generateThumbnail, and every file an
\* item is added for, on the file input's path and on the directory path,
\* is on the allow-list.
C29_OnlyAllowedFiles ==
    /\ [](\A i \in Extracting : OnAllowList(imports[i].files[imports[i].k]))
    /\ [][last'.op = "extracted" => OnAllowList(last'.file)]_vars

====
